---- MODULE Spec2Model ----
(***************************************************************************)
(* Model of clippy_lints/src/indexing_slicing.rs: the late lint pass       *)
(* IndexingSlicing.  check_expr is called once per expression of the       *)
(* crate; for an index expression `array[index]` it emits at most one of   *)
(* the lints OUT_OF_BOUNDS_INDEXING and INDEXING_SLICING.                  *)
(*                                                                         *)
(* The facts the pass consumes from rustc and from clippy's utilities      *)
(* (the type of `array`, the result of higher::range on `index`, the       *)
(* result of consts::constant on an operand) are fields of the modelled    *)
(* expression and are drawn from bounded sets.                             *)
(***************************************************************************)
EXTENDS Integers, Sequences, FiniteSets, TLC

\* Largest array length [T; n] explored.
MaxSize == 3
\* Largest integer literal explored as an index or as a range bound.  The
\* operands are usize values held in a u128 (Constant::Int), so `x + 1`
\* at line 211 cannot wrap; the model keeps it as plain addition.
MaxInt == 5

\* Option<T>: None is the empty tuple, Some(v) the one-element tuple.
None == <<>>
Some(v) == <<v>>

\* consts::constant(cx, cx.tables, expr): None when the operand is not a
\* compile-time constant, Some(Constant::Int(x)) for an integer constant,
\* Some(other) for a constant of any other kind.  The value is a fact of
\* the operand, supplied by the constant evaluator.
NotConst == [kind |-> "NotConst", v |-> 0]
OtherConst == [kind |-> "Other", v |-> 0]
ConstInt(x) == [kind |-> "Int", v |-> x]
Operands == {NotConst, OtherConst} \cup {ConstInt(x) : x \in 0..MaxInt}

constant(operand) == IF operand.kind = "NotConst" THEN None ELSE Some(operand)

\* utils::higher::Range { start, end, limits }.  The three fields are
\* independent in the struct to_const_range receives, so every combination
\* is explored, the ones no range literal desugars to (a closed range
\* without an end) included.
OptOperands == {None} \cup {Some(o) : o \in Operands}
Ranges == [start : OptOperands, end : OptOperands, limits : {"HalfOpen", "Closed"}]

\* ty.sty of the indexed expression: ty::Array(_, s) or anything else.
ArrayTy(n) == [kind |-> "Array", size |-> n]
OtherTy == [kind |-> "Other", size |-> 0]
Tys == {OtherTy} \cup {ArrayTy(n) : n \in 0..MaxSize}

\* expr.node: ExprKind::Index(array, index) or any other kind.  `range` is
\* the result of higher::range(cx, index): Some(range) or None.
NotIndexExpr == [node |-> "Other", ty |-> OtherTy, range |-> None, index |-> NotConst]
RangeIndex(ty, r) == [node |-> "Index", ty |-> ty, range |-> Some(r), index |-> NotConst]
ScalarIndex(ty, o) == [node |-> "Index", ty |-> ty, range |-> None, index |-> o]
Exprs ==
    {NotIndexExpr}
        \cup {RangeIndex(ty, r) : ty \in Tys, r \in Ranges}
        \cup {ScalarIndex(ty, o) : ty \in Tys, o \in Operands}

\* The diagnostics of the two lints.
OutOfBounds == [lint |-> "OUT_OF_BOUNDS_INDEXING", msg |-> "range is out of bounds", help |-> ""]
SlicingAdvisory(help) == [lint |-> "INDEXING_SLICING", msg |-> "slicing may panic.", help |-> help]
IndexingAdvisory ==
    [lint |-> "INDEXING_SLICING", msg |-> "indexing may panic.",
     help |-> "Consider using .get(n) or .get_mut(n) instead"]

\* The three help texts of the slicing lint (written without the source's
\* backquotes, which a TLA+ string cannot hold).
HelpTo == "Consider using .get(..n) or .get_mut(..n) instead"
HelpFrom == "Consider using .get(n..) or .get_mut(n..) instead"
HelpBoth == "Consider using .get(n..m) or .get_mut(n..m) instead"

VARIABLES expr, diags, norm, pc
vars == <<expr, diags, norm, pc>>

\* One side of to_const_range, lines 197-204: the start.
const_start_absent_none(range) ==
    IF range.start = None THEN None
    ELSE LET c == constant(range.start[1])
         IN  IF c # None /\ c[1].kind = "Int" THEN Some(c[1].v) ELSE None

const_start(range) ==
    IF range.start = None THEN Some(0)
    ELSE LET c == constant(range.start[1])
         IN  IF c # None /\ c[1].kind = "Int" THEN Some(c[1].v) ELSE None

\* The other side, lines 206-217: the end, exclusive.
const_end_no_fold(range, array_size) ==
    IF range.end = None THEN Some(array_size)
    ELSE LET c == constant(range.end[1])
         IN  IF c # None /\ c[1].kind = "Int" THEN Some(c[1].v) ELSE None

const_end_absent_none(range, array_size) ==
    IF range.end = None THEN None
    ELSE LET c == constant(range.end[1])
         IN  IF c # None /\ c[1].kind = "Int"
             THEN IF range.limits = "Closed" THEN Some(c[1].v + 1) ELSE Some(c[1].v)
             ELSE None

const_end(range, array_size) ==
    IF range.end = None THEN Some(array_size)
    ELSE LET c == constant(range.end[1])
         IN  IF c # None /\ c[1].kind = "Int"
             THEN IF range.limits = "Closed" THEN Some(c[1].v + 1) ELSE Some(c[1].v)
             ELSE None

to_const_range(range, array_size) == <<const_start(range), const_end(range, array_size)>>

\* The match on the result of to_const_range, lines 115-151.  lint: the
\* out-of-bounds lint is emitted; ret: check_expr returns in that arm.
NoLintNoReturn == [lint |-> FALSE, ret |-> FALSE]

array_range_match_ge(r, size) ==
    CASE r[1] = None /\ r[2] = None -> NoLintNoReturn
      [] r[1] # None /\ r[2] = None -> [lint |-> r[1][1] >= size, ret |-> r[1][1] >= size]
      [] r[1] = None /\ r[2] # None -> [lint |-> r[2][1] >= size, ret |-> r[2][1] >= size]
      [] r[1] # None /\ r[2] # None ->
            [lint |-> r[1][1] >= size \/ r[2][1] >= size, ret |-> TRUE]

array_range_match_no_final_return(r, size) ==
    CASE r[1] = None /\ r[2] = None -> NoLintNoReturn
      [] r[1] # None /\ r[2] = None -> [lint |-> r[1][1] > size, ret |-> r[1][1] > size]
      [] r[1] = None /\ r[2] # None -> [lint |-> r[2][1] > size, ret |-> r[2][1] > size]
      [] r[1] # None /\ r[2] # None ->
            [lint |-> r[1][1] > size \/ r[2][1] > size,
             ret |-> r[1][1] > size \/ r[2][1] > size]

array_range_match_no_early_return(r, size) ==
    CASE r[1] = None /\ r[2] = None -> NoLintNoReturn
      [] r[1] # None /\ r[2] = None -> [lint |-> r[1][1] > size, ret |-> FALSE]
      [] r[1] = None /\ r[2] # None -> [lint |-> r[2][1] > size, ret |-> FALSE]
      [] r[1] # None /\ r[2] # None ->
            [lint |-> r[1][1] > size \/ r[2][1] > size, ret |-> TRUE]

array_range_match(r, size) ==
    CASE r[1] = None /\ r[2] = None -> NoLintNoReturn
      [] r[1] # None /\ r[2] = None -> [lint |-> r[1][1] > size, ret |-> r[1][1] > size]
      [] r[1] = None /\ r[2] # None -> [lint |-> r[2][1] > size, ret |-> r[2][1] > size]
      [] r[1] # None /\ r[2] # None ->
            [lint |-> r[1][1] > size \/ r[2][1] > size, ret |-> TRUE]

\* help_msg, lines 154-159: None stands for the `return` of the [..] arm.
help_msg_full_range_linted(range) ==
    CASE range.start = None /\ range.end # None -> Some(HelpTo)
      [] range.start # None /\ range.end = None -> Some(HelpFrom)
      [] range.start # None /\ range.end # None -> Some(HelpBoth)
      [] range.start = None /\ range.end = None -> Some(HelpBoth)

help_msg_swapped(range) ==
    CASE range.start = None /\ range.end # None -> Some(HelpFrom)
      [] range.start # None /\ range.end = None -> Some(HelpTo)
      [] range.start # None /\ range.end # None -> Some(HelpBoth)
      [] range.start = None /\ range.end = None -> None

help_msg(range) ==
    CASE range.start = None /\ range.end # None -> Some(HelpTo)
      [] range.start # None /\ range.end = None -> Some(HelpFrom)
      [] range.start # None /\ range.end # None -> Some(HelpBoth)
      [] range.start = None /\ range.end = None -> None

\* Lines 170-176: a constant index into an array is left to rustc's
\* const_err lint.
const_index_on_array_int_only(ty, index) ==
    ty.kind = "Array" /\ constant(index) # None /\ constant(index)[1].kind = "Int"

const_index_on_array_in_bounds_only(ty, index) ==
    /\ ty.kind = "Array"
    /\ constant(index) # None
    /\ constant(index)[1].kind = "Int" => constant(index)[1].v <= ty.size

const_index_on_array(ty, index) ==
    ty.kind = "Array" /\ constant(index) # None

\* Lines 110-167: the range arm of check_expr.  The result is the list of
\* diagnostics emitted and the value to_const_range returned, if called.
check_range(ty, range) ==
    LET r == IF ty.kind = "Array" THEN to_const_range(range, ty.size) ELSE <<>>
        m == IF ty.kind = "Array" THEN array_range_match(r, ty.size) ELSE NoLintNoReturn
        oob == IF m.lint THEN <<OutOfBounds>> ELSE <<>>
        adv == IF m.ret \/ help_msg(range) = None
               THEN <<>>
               ELSE <<SlicingAdvisory(help_msg(range)[1])>>
    IN  [diags |-> oob \o adv, norm |-> r]

\* Lines 168-185: the catch-all arm for a non-range index.
check_scalar(ty, index) ==
    [diags |-> IF const_index_on_array(ty, index) THEN <<>> ELSE <<IndexingAdvisory>>,
     norm |-> <<>>]

\* LateLintPass::check_expr, lines 107-187.
check_expr(e) ==
    IF e.node # "Index" THEN [diags |-> <<>>, norm |-> <<>>]
    ELSE IF e.range # None THEN check_range(e.ty, e.range[1])
    ELSE check_scalar(e.ty, e.index)

Init ==
    /\ expr \in Exprs
    /\ diags = <<>>
    /\ norm = <<>>
    /\ pc = "visit"

\* The lint driver calls check_expr on the expression being visited.
CheckExpr ==
    /\ pc = "visit"
    /\ diags' = check_expr(expr).diags
    /\ norm' = check_expr(expr).norm
    /\ pc' = "checked"
    /\ UNCHANGED expr

\* The driver moves on to another expression; the pass keeps no state.
NextExpr ==
    /\ pc = "checked"
    /\ \E e \in Exprs : expr' = e
    /\ diags' = <<>>
    /\ norm' = <<>>
    /\ pc' = "visit"

Next == CheckExpr \/ NextExpr

Spec == Init /\ [][Next]_vars

----
\* Vocabulary of the properties, in terms of the checked expression.
Checked == pc = "checked"
IsRange == expr.node = "Index" /\ expr.range # None
IsScalar == expr.node = "Index" /\ expr.range = None
OnArray == expr.ty.kind = "Array"
Rng == expr.range[1]
N == expr.ty.size

\* A side of the range is Absent, Constant (an integer constant) or
\* NonConstant (not a constant, or a constant that is not an integer).
SideKind(side) ==
    IF side = None THEN "Absent"
    ELSE IF side[1].kind = "Int" THEN "Constant" ELSE "NonConstant"
StartKind == SideKind(Rng.start)
EndKind == SideKind(Rng.end)
Inclusive == Rng.limits = "Closed"

\* The normalised bounds as the specification states them.
Lower ==
    CASE StartKind = "Absent" -> Some(0)
      [] StartKind = "Constant" -> Some(Rng.start[1].v)
      [] StartKind = "NonConstant" -> None
Upper ==
    CASE EndKind = "Absent" -> Some(N)
      [] EndKind = "Constant" -> Some(IF Inclusive THEN Rng.end[1].v + 1 ELSE Rng.end[1].v)
      [] EndKind = "NonConstant" -> None
Exceeds == (Lower # None /\ Lower[1] > N) \/ (Upper # None /\ Upper[1] > N)

HasOutOfBounds == \E i \in 1..Len(diags) : diags[i].lint = "OUT_OF_BOUNDS_INDEXING"
HasAdvisory == \E i \in 1..Len(diags) : diags[i].lint = "INDEXING_SLICING"

\* C1: a range access on an array of length n gets the out-of-bounds lint
\* if and only if a concretely normalised bound is strictly greater than n
\* (a bound equal to n, and any bound on an empty array that is 0, is not
\* reported).
C1_OutOfBoundsIffBoundExceeds ==
    (Checked /\ IsRange /\ OnArray) => (HasOutOfBounds <=> Exceeds)

\* C1 witness: a constant exclusive end exactly equal to the length, with an
\* in-bounds start, was checked and not reported.
C1_Witness ==
    /\ Checked /\ IsRange /\ OnArray
    /\ Rng.end = Some(ConstInt(N)) /\ ~Inclusive
    /\ StartKind = "Constant" /\ Rng.start[1].v = N
    /\ ~HasOutOfBounds

C4_BothConstantNoAdvisoryAnyShape ==
    (Checked /\ IsRange /\ StartKind = "Constant" /\ EndKind = "Constant")
        => ~HasAdvisory

\* C4 (amended): on an array, a range whose start and end are both integer
\* constants never gets an advisory: only the out-of-bounds lint or nothing.
C4_BothConstantNoAdvisoryOnArray ==
    (Checked /\ IsRange /\ OnArray /\ StartKind = "Constant" /\ EndKind = "Constant")
        => /\ ~HasAdvisory
           /\ diags \in {<<>>, <<OutOfBounds>>}

\* C4 witness: an in-bounds constant range on an array was checked, nothing
\* emitted.
C4_Witness ==
    /\ Checked /\ IsRange /\ OnArray
    /\ StartKind = "Constant" /\ EndKind = "Constant" /\ ~Exceeds
    /\ diags = <<>>

\* C5 (as claimed): on an array of length n, `..e` with a constant exclusive
\* e <= n is left undecided with no concrete lower bound (rule 3) and gets
\* the end-bounded advisory.
C5_ToRangeInBoundsGetsAdvisory ==
    (Checked /\ IsRange /\ OnArray /\ StartKind = "Absent" /\ EndKind = "Constant"
        /\ ~Inclusive /\ Rng.end[1].v <= N)
        => diags = <<SlicingAdvisory(HelpTo)>>

\* C5 (amended): on an array of length n, `..e` with a constant exclusive
\* e <= n normalises to (Some(0), Some(e)), is decided by the both-concrete
\* arm, and gets no diagnostic.
C5_ToRangeInBoundsGetsNothing ==
    (Checked /\ IsRange /\ OnArray /\ StartKind = "Absent" /\ EndKind = "Constant"
        /\ ~Inclusive /\ Rng.end[1].v <= N)
        => /\ norm = <<Some(0), Some(Rng.end[1].v)>>
           /\ diags = <<>>

\* C5 witness: arr[..2] on an array of length 3 was checked, nothing emitted.
C5_Witness ==
    /\ Checked /\ IsRange /\ OnArray /\ N = 3
    /\ Rng = [start |-> None, end |-> Some(ConstInt(2)), limits |-> "HalfOpen"]
    /\ diags = <<>>

\* C6: the full range (start and end both absent) never gets a diagnostic,
\* on an array of any length or on anything else, for either range limit.
C6_FullRangeNoDiagnostic ==
    (Checked /\ IsRange /\ StartKind = "Absent" /\ EndKind = "Absent") => diags = <<>>

\* C6 witness: a full range on a non-array was checked, nothing emitted.
C6_Witness ==
    /\ Checked /\ IsRange /\ ~OnArray
    /\ Rng.start = None /\ Rng.end = None
    /\ diags = <<>>

\* C7: on a non-array the bounds stage is skipped: never the out-of-bounds
\* lint, and a range with a present side gets exactly one advisory whose
\* help text depends only on which sides are present.
C7_UnsizedAdvisoryByPresence ==
    (Checked /\ IsRange /\ ~OnArray) =>
        /\ ~HasOutOfBounds
        /\ norm = <<>>
        /\ (Rng.start = None /\ Rng.end # None) => diags = <<SlicingAdvisory(HelpTo)>>
        /\ (Rng.start # None /\ Rng.end = None) => diags = <<SlicingAdvisory(HelpFrom)>>
        /\ (Rng.start # None /\ Rng.end # None) => diags = <<SlicingAdvisory(HelpBoth)>>

\* C7 witness: a start-only range on a non-array, with a constant start, was
\* checked and got the start-bounded advisory.
C7_Witness ==
    /\ Checked /\ IsRange /\ ~OnArray
    /\ StartKind = "Constant" /\ EndKind = "Absent"
    /\ diags = <<SlicingAdvisory(HelpFrom)>>

\* C8: the normalised upper bound of a constant end v is v+1 for an
\* inclusive range and v otherwise; an absent end is n and a non-constant
\* end is None whatever the limits; the lower bound never gets +1.
C8_InclusiveFolding ==
    (Checked /\ IsRange /\ OnArray) =>
        /\ (EndKind = "Constant" /\ Inclusive) => norm[2] = Some(Rng.end[1].v + 1)
        /\ (EndKind = "Constant" /\ ~Inclusive) => norm[2] = Some(Rng.end[1].v)
        /\ EndKind = "Absent" => norm[2] = Some(N)
        /\ EndKind = "NonConstant" => norm[2] = None
        /\ StartKind = "Constant" => norm[1] = Some(Rng.start[1].v)
        /\ StartKind = "Absent" => norm[1] = Some(0)
        /\ StartKind = "NonConstant" => norm[1] = None

\* C8 witness: an inclusive range with constant start and end was
\* normalised, the end folded to v+1 and the start left alone.
C8_Witness ==
    /\ Checked /\ IsRange /\ OnArray /\ Inclusive
    /\ StartKind = "Constant" /\ EndKind = "Constant"
    /\ norm = <<Some(Rng.start[1].v), Some(Rng.end[1].v + 1)>>

\* C9: check_expr emits at most one diagnostic for an expression; the
\* out-of-bounds lint and an advisory are never emitted together.
C9_AtMostOneDiagnostic ==
    /\ Len(diags) <= 1
    /\ ~(HasOutOfBounds /\ HasAdvisory)

\* C9 witness: a range with an out-of-bounds constant start and a
\* non-constant end was checked: the out-of-bounds lint alone was emitted.
C9_Witness ==
    /\ Checked /\ IsRange /\ OnArray
    /\ StartKind = "Constant" /\ Rng.start[1].v > N /\ EndKind = "NonConstant"
    /\ diags = <<OutOfBounds>>

\* C10: on an array, a range gets an advisory if and only if a present bound
\* is NonConstant and no concretely normalised bound exceeds n; a
\* start-bounded or end-bounded help text is only ever given when that
\* single present bound is NonConstant.
C10_ArrayAdvisoryIffNonConstant ==
    (Checked /\ IsRange /\ OnArray) =>
        /\ HasAdvisory <=>
              ((StartKind = "NonConstant" \/ EndKind = "NonConstant") /\ ~Exceeds)
        /\ diags = <<SlicingAdvisory(HelpFrom)>> =>
              (StartKind = "NonConstant" /\ EndKind = "Absent")
        /\ diags = <<SlicingAdvisory(HelpTo)>> =>
              (StartKind = "Absent" /\ EndKind = "NonConstant")

\* C10 witness: a start-only range with a non-constant start on an array was
\* checked and got the start-bounded advisory.
C10_Witness ==
    /\ Checked /\ IsRange /\ OnArray
    /\ StartKind = "NonConstant" /\ EndKind = "Absent"
    /\ diags = <<SlicingAdvisory(HelpFrom)>>

====
